---- MODULE Spec2Model ----
(***************************************************************************)
(* Life Calendar API (server.js): the request handler for                 *)
(* POST /api/generate-calendar, its input validation, the week            *)
(* calculator, the theme lookup and the grid drawn on the canvas.         *)
(*                                                                         *)
(* JavaScript values are records tagged by their typeof-like field t;     *)
(* a string is the tuple of its characters.                               *)
(* Numbers that can carry a fraction (lifeExpectancy and every pixel      *)
(* quantity derived from it) are held in fixed point, as multiples of     *)
(* 1/U; counts of weeks, days and loop indices are plain integers.        *)
(* A Date is a record [valid, day, ms]: the UTC day number since          *)
(* 1970-01-01 and the milliseconds within that day.                       *)
(* The other routes of server.js answer in one step each.  The year-mode  *)
(* calculator, which server.js does not contain, is a specification of    *)
(* its own (SpecYear) over the variable yearMode.                         *)
(***************************************************************************)
EXTENDS Integers, Sequences, FiniteSets, TLC

VARIABLES now, zoneBehindUTC, pc, route, req, res, render, yearMode

vars == <<now, zoneBehindUTC, pc, route, req, res, render, yearMode>>

----------------------------------------------------------------------------
(* Bounds of the exploration *)

\* number of half-day clock steps the run may take
MaxTicks == 3

\* number of calendar years whose days the year-mode calculator is tried on
MaxYearModeYears == 2

\* lifeExpectancy inputs 0, 0.5, 1, ... MaxSmallLife are all tried
MaxSmallLife == 2

----------------------------------------------------------------------------
(* JavaScript values *)

\* resolution of the fixed-point numbers: 1/U
U == 4

Undefined == [t |-> "undefined"]
Null == [t |-> "null"]
Num(q) == [t |-> "number", v |-> q]
Str(s) == [t |-> "string", v |-> s]
Fn(name) == [t |-> "function", v |-> name]
Obj(name) == [t |-> "object", v |-> name]

\* ToBoolean
Truthy(x) ==
  CASE x.t = "undefined" -> FALSE
    [] x.t = "null" -> FALSE
    [] x.t = "number" -> x.v # 0
    [] x.t = "string" -> x.v # <<>>
    [] OTHER -> TRUE

\* a || b
OrElse(a, b) == IF Truthy(a) THEN a ELSE b

\* destructuring default: applies to undefined only
Default(a, b) == IF a.t = "undefined" THEN b ELSE a

\* ToNumber, in fixed point, of the values the handler can pass on
ToNumber(x) ==
  CASE x.t = "number" -> x.v
    [] x.t = "null" -> 0
    [] OTHER -> 0

\* the strings this model names
S_dark == <<"d", "a", "r", "k">>
S_light == <<"l", "i", "g", "h", "t">>
S_blue == <<"b", "l", "u", "e">>
S_Dark == <<"D", "a", "r", "k">>
S_constructor == <<"c", "o", "n", "s", "t", "r", "u", "c", "t", "o", "r">>
S_toString == <<"t", "o", "S", "t", "r", "i", "n", "g">>
S_proto == <<"_", "_", "p", "r", "o", "t", "o", "_", "_">>

----------------------------------------------------------------------------
(* Dates *)

MsPerDay == 86400000

HalfDay == MsPerDay \div 2

Digits == <<"0", "1", "2", "3", "4", "5", "6", "7", "8", "9">>

IsDigit(c) == \E k \in 1..10 : Digits[k] = c

DigitVal(c) == (CHOOSE k \in 1..10 : Digits[k] = c) - 1

\* the decimal digit of n's last place
DigitChar(n) == Digits[(n % 10) + 1]

\* /^\d{4}-\d{2}-\d{2}$/.test(s)
IsoFormat(s) ==
  /\ Len(s) = 10
  /\ s[5] = "-" /\ s[8] = "-"
  /\ \A k \in {1, 2, 3, 4, 6, 7, 9, 10} : IsDigit(s[k])

\* day number of the civil date y-m-d (proleptic Gregorian, UTC)
DaysFromCivil(y, m, d) ==
  LET yy == IF m <= 2 THEN y - 1 ELSE y
      era == yy \div 400
      yoe == yy - era * 400
      mp == IF m > 2 THEN m - 3 ELSE m + 9
      doy == (153 * mp + 2) \div 5 + d - 1
      doe == yoe * 365 + yoe \div 4 - yoe \div 100 + doy
  IN era * 146097 + doe - 719468

\* civil date <<y, m, d>> of a day number
CivilFromDays(z0) ==
  LET z == z0 + 719468
      era == z \div 146097
      doe == z - era * 146097
      yoe == (doe - doe \div 1460 + doe \div 36524 - doe \div 146096) \div 365
      doy == doe - (365 * yoe + yoe \div 4 - yoe \div 100)
      mp == (5 * doy + 2) \div 153
      d == doy - (153 * mp + 2) \div 5 + 1
      m == IF mp < 10 THEN mp + 3 ELSE mp - 9
      y == yoe + era * 400 + (IF m <= 2 THEN 1 ELSE 0)
  IN <<y, m, d>>

InvalidDate == [valid |-> FALSE, day |-> 0, ms |-> 0]

\* new Date("YYYY-MM-DD") for a string in IsoFormat: UTC midnight; the
\* engine accepts months 1..12 and days 1..31 and carries a day beyond the
\* end of the month into the next one, anything else is an Invalid Date
DateParse(s) ==
  LET y == DigitVal(s[1]) * 1000 + DigitVal(s[2]) * 100
             + DigitVal(s[3]) * 10 + DigitVal(s[4])
      m == DigitVal(s[6]) * 10 + DigitVal(s[7])
      d == DigitVal(s[9]) * 10 + DigitVal(s[10])
  IN IF m >= 1 /\ m <= 12 /\ d >= 1 /\ d <= 31
       THEN [valid |-> TRUE, day |-> DaysFromCivil(y, m, 1) + d - 1, ms |-> 0]
       ELSE InvalidDate

\* today.toISOString().split('T')[0]
ToISODate(date) ==
  LET c == CivilFromDays(date.day)
      y == c[1]
      m == c[2]
      d == c[3]
  IN << DigitChar(y \div 1000), DigitChar(y \div 100), DigitChar(y \div 10),
        DigitChar(y), "-", DigitChar(m \div 10), DigitChar(m), "-",
        DigitChar(d \div 10), DigitChar(d) >>

\* a > b taken on the day after b
DateGreater_nextDay(a, b) ==
  /\ a.valid /\ b.valid
  /\ a.day > b.day + 1

\* a > b on Dates (comparison with an Invalid Date is false)
DateGreater(a, b) ==
  /\ a.valid /\ b.valid
  /\ \/ a.day > b.day
     \/ a.day = b.day /\ a.ms > b.ms

\* (a - b) / q rounded down, for Dates a, b and a number q of milliseconds
\* that is a whole number of days
FloorDiffDiv(a, b, q) ==
  LET qd == q \div MsPerDay
      dd == a.day - b.day
      dms == a.ms - b.ms
  IN dd \div qd + ((dd % qd) * MsPerDay + dms) \div q

----------------------------------------------------------------------------
(* server.js *)

CANVAS_WIDTH == 1170
CANVAS_HEIGHT == 2532

UndefinedField == "undefined"

Palette(name) ==
  IF name = S_dark
    THEN [t |-> "palette", v |-> S_dark,
          background |-> "#000000", lived |-> "#FFFFFF", future |-> "#333333",
          current |-> "#FF0000", text |-> "#FFFFFF", textSecondary |-> "#888888"]
    ELSE [t |-> "palette", v |-> S_light,
          background |-> "#FFFFFF", lived |-> "#000000", future |-> "#CCCCCC",
          current |-> "#00A8FF", text |-> "#000000", textSecondary |-> "#666666"]

\* the own properties of THEMES
THEMES == {S_dark, S_light}

\* properties every plain object inherits from Object.prototype
ObjectPrototype == {S_constructor, S_toString, S_proto}

\* THEMES[key] for a string key: own property first, then the prototype chain
ThemesGet(key) ==
  CASE key \in THEMES -> Palette(key)
    [] key = S_proto -> Obj(S_proto)
    [] key \in ObjectPrototype -> Fn(key)
    [] OTHER -> Undefined

\* THEMES[x] for any value x a request body can carry in theme
ThemesLookup(x) == IF x.t = "string" THEN ThemesGet(x.v) ELSE Undefined

\* theme.<field>: a colour for a palette, undefined for any other object
Field(theme, f) == IF theme.t = "palette" THEN theme[f] ELSE UndefinedField

\* the upper limit of lifeExpectancy mistyped as 1500
validateInput_max1500(body, today, legacyFuture) ==
  LET e1 == IF ~Truthy(body.birthDate)
              THEN <<"birthDate is required (format: YYYY-MM-DD)">>
            ELSE IF ~IsoFormat(body.birthDate.v)
              THEN <<"birthDate must be in YYYY-MM-DD format">>
            ELSE IF ~DateParse(body.birthDate.v).valid
              THEN <<"birthDate is not a valid date">>
            ELSE <<>>
      lifeExpectancy == OrElse(body.lifeExpectancy, Num(80 * U))
      e2 == IF \/ lifeExpectancy.t # "number"
               \/ lifeExpectancy.v < 1 * U
               \/ lifeExpectancy.v > 1500 * U
              THEN <<"lifeExpectancy must be a number between 1 and 150">>
              ELSE <<>>
      e3 == IF Truthy(body.theme) /\ ~Truthy(ThemesLookup(body.theme))
              THEN <<"theme must be either \"dark\" or \"light\"">>
              ELSE <<>>
      e4 == IF /\ Truthy(body.birthDate)
               /\ IF IsoFormat(body.birthDate.v)
                    THEN DateGreater(DateParse(body.birthDate.v), today)
                    ELSE legacyFuture
              THEN <<"birthDate cannot be in the future">>
              ELSE <<>>
  IN e1 \o e2 \o e3 \o e4

\* validateInput(body); today is the value of new Date() at line 84 and
\* legacyFuture tells whether the engine's fallback parser reads a birthDate
\* that is not in YYYY-MM-DD form as a date after today
validateInput(body, today, legacyFuture) ==
  LET e1 == IF ~Truthy(body.birthDate)
              THEN <<"birthDate is required (format: YYYY-MM-DD)">>
            ELSE IF ~IsoFormat(body.birthDate.v)
              THEN <<"birthDate must be in YYYY-MM-DD format">>
            ELSE IF ~DateParse(body.birthDate.v).valid
              THEN <<"birthDate is not a valid date">>
            ELSE <<>>
      lifeExpectancy == OrElse(body.lifeExpectancy, Num(80 * U))
      e2 == IF \/ lifeExpectancy.t # "number"
               \/ lifeExpectancy.v < 1 * U
               \/ lifeExpectancy.v > 150 * U
              THEN <<"lifeExpectancy must be a number between 1 and 150">>
              ELSE <<>>
      e3 == IF Truthy(body.theme) /\ ~Truthy(ThemesLookup(body.theme))
              THEN <<"theme must be either \"dark\" or \"light\"">>
              ELSE <<>>
      e4 == IF /\ Truthy(body.birthDate)
               /\ IF IsoFormat(body.birthDate.v)
                    THEN DateGreater(DateParse(body.birthDate.v), today)
                    ELSE legacyFuture
              THEN <<"birthDate cannot be in the future">>
              ELSE <<>>
  IN e1 \o e2 \o e3 \o e4

msPerWeek == 7 * MsPerDay

\* Math.ceil in place of Math.floor
calculateWeeksLived_ceil(birthDate, currentDate) ==
  0 - FloorDiffDiv(DateParse(birthDate), DateParse(currentDate), msPerWeek)

\* Math.round in place of Math.floor
calculateWeeksLived_round(birthDate, currentDate) ==
  LET halfWeek == [valid |-> TRUE, day |-> 3, ms |-> HalfDay]
      current == DateParse(currentDate)
  IN FloorDiffDiv([current EXCEPT !.day = @ + halfWeek.day, !.ms = halfWeek.ms],
                  DateParse(birthDate), msPerWeek)

calculateWeeksLived(birthDate, currentDate) ==
  FloorDiffDiv(DateParse(currentDate), DateParse(birthDate), msPerWeek)

\* layout constants of generateCalendarImage, in pixels
weeksPerYear == 52
headerHeight == 300
safeAreaTop == 250
marginBottom == 100
marginLeft == 80
marginRight == 50
yearLabelWidth == 40
dotDiameter == 8
spacing == 3

availableWidth == CANVAS_WIDTH - marginLeft - marginRight - yearLabelWidth
availableHeight == CANVAS_HEIGHT - headerHeight - safeAreaTop - marginBottom
cellSize == dotDiameter + spacing
gridWidth == weeksPerYear * cellSize

\* the remaining layout values depend on totalYears; they are in fixed point
gridHeight(totalYears) == totalYears * cellSize

startX == (marginLeft + yearLabelWidth) * U + ((availableWidth - gridWidth) * U) \div 2

\* the free height added whole instead of halved
startY_notHalved(totalYears) ==
  (safeAreaTop + headerHeight) * U
    + (availableHeight * U - gridHeight(totalYears))

startY(totalYears) ==
  (safeAreaTop + headerHeight) * U
    + (availableHeight * U - gridHeight(totalYears)) \div 2

\* number of iterations of: for (let year = 0; year < totalYears; year++)
YearIterations(totalYears) ==
  IF totalYears <= 0 THEN 0 ELSE (totalYears + U - 1) \div U

\* ctx.fillStyle = v: an undefined value is ignored by the canvas
SetFillStyle(cur, v) == IF v = UndefinedField THEN cur ELSE v

\* one entry of the canvas log: a fillRect, a fillText or a filled arc
Draw(part, op, style, x, y, r, text, n) ==
  [part |-> part, op |-> op, style |-> style, x |-> x, y |-> y, r |-> r,
   text |-> text, n |-> n]

\* colour of the dot of weekIndex (lines 210-217)
DotColor(theme, weekIndex, weeksLived) ==
  IF weekIndex = weeksLived THEN Field(theme, "current")
  ELSE IF weekIndex < weeksLived THEN Field(theme, "lived")
  ELSE Field(theme, "future")

\* the dot drawn by the iteration (year, week) of the grid loop; prev is the
\* fillStyle before the loop, which stays in force when the colour is undefined
GridDot(theme, prev, totalYears, weeksLived, year, week) ==
  LET weekIndex == year * weeksPerYear + week
      x == startX + week * cellSize * U + (dotDiameter * U) \div 2
      y == startY(totalYears) + year * cellSize * U + (dotDiameter * U) \div 2
      color == DotColor(theme, weekIndex, weeksLived)
  IN Draw("grid", "arc", SetFillStyle(prev, color), x, y,
          (dotDiameter * U) \div 2, "", weekIndex)

\* the grid loop (lines 203-225): year-major, week-minor
GridDots(theme, prev, totalYears, weeksLived) ==
  [k \in 1..(YearIterations(totalYears) * weeksPerYear) |->
     GridDot(theme, prev, totalYears, weeksLived,
             (k - 1) \div weeksPerYear, (k - 1) % weeksPerYear)]

\* style left in the context after the grid loop
StyleAfter(dots, prev) == IF Len(dots) = 0 THEN prev ELSE dots[Len(dots)].style

\* new Date(birthDate).getFullYear(): the year in the server's time zone,
\* which is the previous UTC day's year when the zone is behind UTC
BirthYear(birthDate, behind) ==
  CivilFromDays(DateParse(birthDate).day - (IF behind THEN 1 ELSE 0))[1]

\* the draw calls before the grid loop (lines 114-200)
HeaderDraws(theme, totalYears, totalWeeks, weeksLived) ==
  LET sBg == SetFillStyle("#000000", Field(theme, "background"))
      s1 == SetFillStyle(sBg, Field(theme, "textSecondary"))
      sTitle == SetFillStyle(s1, Field(theme, "text"))
      s2 == SetFillStyle(s1, Field(theme, "textSecondary"))
      s3 == SetFillStyle(s2, Field(theme, "text"))
      s4 == SetFillStyle(s3, Field(theme, "textSecondary"))
      left == (marginLeft + yearLabelWidth) * U
  IN << Draw("background", "fillRect", sBg, 0, 0, 0, "", 0),
        Draw("header", "fillText", sTitle, (CANVAS_WIDTH - 50) * U,
             (safeAreaTop + 30) * U, 0, "LIFE CALENDAR", 0),
        Draw("header", "fillText", s2, 30 * U,
             (safeAreaTop + headerHeight) * U + gridHeight(totalYears) \div 2,
             0, "WEEK OF THE YEAR", 0) >>
     \o [j \in 1..(weeksPerYear \div 10 + 1) |->
           Draw("header", "fillText", s2,
                startX + (j - 1) * 10 * cellSize * U,
                startY(totalYears) - 15 * U, 0, "week number", (j - 1) * 10)]
     \o [j \in 1..(IF totalYears < 0 THEN 0 ELSE totalYears \div (10 * U) + 1) |->
           Draw("header", "fillText", s2, startX - 15 * U,
                startY(totalYears) + (j - 1) * 10 * cellSize * U
                  + (dotDiameter * U) \div 2 + 3 * U,
                0, "year marker", (j - 1) * 10)]
     \o << Draw("header", "fillText", s3, left, (safeAreaTop + 60) * U, 0,
                "Age: N years", weeksLived \div 52),
           Draw("header", "fillText", s4, left, (safeAreaTop + 85) * U, 0,
                "N weeks lived", weeksLived),
           Draw("header", "fillText", s4, left, (safeAreaTop + 105) * U, 0,
                "N weeks remaining", totalWeeks - weeksLived * U) >>

\* the draw calls after the grid loop (lines 227-262)
FooterDraws(theme, prev, birthYear) ==
  LET s5 == SetFillStyle(prev, Field(theme, "textSecondary"))
      sL == SetFillStyle(s5, Field(theme, "lived"))
      sLt == SetFillStyle(sL, Field(theme, "textSecondary"))
      sC == SetFillStyle(sLt, Field(theme, "current"))
      sCt == SetFillStyle(sC, Field(theme, "textSecondary"))
      sF == SetFillStyle(sCt, Field(theme, "future"))
      sFt == SetFillStyle(sF, Field(theme, "textSecondary"))
      legendY == (CANVAS_HEIGHT - 60) * U
      legendStartX == (CANVAS_WIDTH * U) \div 2 - 150 * U
  IN << Draw("birthYear", "fillText", s5, (marginLeft + yearLabelWidth) * U,
             (safeAreaTop + 130) * U, 0, "Born: N", birthYear),
        Draw("legend", "arc", sL, legendStartX, legendY, 4 * U, "", 0),
        Draw("legend", "fillText", sLt, legendStartX + 12 * U, legendY + 4 * U,
             0, "Lived", 0),
        Draw("legend", "arc", sC, legendStartX + 80 * U, legendY, 4 * U, "", 0),
        Draw("legend", "fillText", sCt, legendStartX + 92 * U, legendY + 4 * U,
             0, "Now", 0),
        Draw("legend", "arc", sF, legendStartX + 150 * U, legendY, 4 * U, "", 0),
        Draw("legend", "fillText", sFt, legendStartX + 162 * U, legendY + 4 * U,
             0, "Future", 0),
        Draw("encode", "toBuffer", sFt, 0, 0, 0, "image/png", 0) >>

\* THEMES[themeName] || THEMES.dark
ResolveTheme(themeName) == OrElse(ThemesLookup(themeName), Palette(S_dark))

\* the footer drawn before the grid loop instead of after it
generateCalendarImage_footerFirst(birthDate, currentDate, lifeExpectancy, themeName, behind) ==
  LET theme == ResolveTheme(themeName)
      totalYears == ToNumber(lifeExpectancy)
      totalWeeks == totalYears * weeksPerYear
      weeksLived == calculateWeeksLived(birthDate, currentDate)
      header == HeaderDraws(theme, totalYears, totalWeeks, weeksLived)
      footer == FooterDraws(theme, header[Len(header)].style,
                            BirthYear(birthDate, behind))
      dots == GridDots(theme, footer[Len(footer)].style, totalYears, weeksLived)
  IN [called |-> TRUE,
      birthDate |-> birthDate, currentDate |-> currentDate,
      lifeExpectancy |-> lifeExpectancy, themeName |-> themeName,
      theme |-> theme, totalYears |-> totalYears, totalWeeks |-> totalWeeks,
      weeksLived |-> weeksLived,
      gridHeight |-> gridHeight(totalYears),
      startX |-> startX, startY |-> startY(totalYears),
      ops |-> header \o footer \o dots]

\* generateCalendarImage: the values of its locals and the log of its
\* canvas calls, in call order
generateCalendarImage(birthDate, currentDate, lifeExpectancy, themeName, behind) ==
  LET theme == ResolveTheme(themeName)
      totalYears == ToNumber(lifeExpectancy)
      totalWeeks == totalYears * weeksPerYear
      weeksLived == calculateWeeksLived(birthDate, currentDate)
      header == HeaderDraws(theme, totalYears, totalWeeks, weeksLived)
      dots == GridDots(theme, header[Len(header)].style, totalYears, weeksLived)
      footer == FooterDraws(theme, StyleAfter(dots, header[Len(header)].style),
                            BirthYear(birthDate, behind))
  IN [called |-> TRUE,
      birthDate |-> birthDate, currentDate |-> currentDate,
      lifeExpectancy |-> lifeExpectancy, themeName |-> themeName,
      theme |-> theme, totalYears |-> totalYears, totalWeeks |-> totalWeeks,
      weeksLived |-> weeksLived,
      gridHeight |-> gridHeight(totalYears),
      startX |-> startX, startY |-> startY(totalYears),
      ops |-> header \o dots \o footer]

\* no call of generateCalendarImage was made for the request
NotCalled ==
  [called |-> FALSE,
   birthDate |-> <<>>, currentDate |-> <<>>,
   lifeExpectancy |-> Undefined, themeName |-> Undefined,
   theme |-> Undefined, totalYears |-> 0, totalWeeks |-> 0,
   weeksLived |-> 0, gridHeight |-> 0, startX |-> 0, startY |-> 0,
   ops |-> <<>>]

----------------------------------------------------------------------------
(* The clock and the requests explored *)

\* the server starts on 2024-05-14 at 12:00 UTC
StartTime == [valid |-> TRUE, day |-> DaysFromCivil(2024, 5, 14), ms |-> HalfDay]

\* the time t plus k half days
AddHalfDays(t, k) ==
  LET h == t.ms \div HalfDay + k
  IN [valid |-> TRUE, day |-> t.day + h \div 2, ms |-> (h % 2) * HalfDay]

\* half days elapsed since the start
TicksSince(t) == (t.day - StartTime.day) * 2 + t.ms \div HalfDay - 1

\* the text y-m-d with two-digit month and day, whatever their values
DateText(y, m, d) ==
  Str(<< DigitChar(y \div 1000), DigitChar(y \div 100), DigitChar(y \div 10),
         DigitChar(y), "-", DigitChar(m \div 10), DigitChar(m), "-",
         DigitChar(d \div 10), DigitChar(d) >>)

BirthDateInputs ==
  { Undefined, Str(<<>>),
    Str(<<"1", "9", "9", "0", "-", "5", "-", "1", "5">>),
    DateText(1990, 5, 15), DateText(2020, 5, 15), DateText(2023, 5, 15),
    DateText(2024, 2, 30), DateText(2024, 13, 1),
    DateText(2024, 5, 14), DateText(2024, 5, 15), DateText(2024, 5, 16),
    DateText(2024, 5, 17) }

\* 0, 0.5, 1, ... MaxSmallLife
SmallLifeInputs == { Num(h * (U \div 2)) : h \in 0..(2 * MaxSmallLife) }

LifeExpectancyInputs ==
  SmallLifeInputs
    \cup { Undefined, Null, Str(<<"8", "0">>), Num(-1 * U), Num(80 * U),
           Num(150 * U - U \div 2), Num(150 * U), Num(150 * U + U \div 2),
           Num(151 * U), Num(172 * U) }

ThemeInputs ==
  { Undefined, Str(<<>>), Str(S_dark), Str(S_light), Str(S_blue), Str(S_Dark),
    Str(S_constructor), Str(S_toString), Str(S_proto) }

Body(b, l, th) == [birthDate |-> b, lifeExpectancy |-> l, theme |-> th]

\* the request bodies: every birth date with every life expectancy that
\* gives a small grid or a rejection, the large grids with a few birth
\* dates, and every theme with one birth date
Bodies ==
  { Body(b, l, Str(S_dark)) :
      b \in BirthDateInputs,
      l \in LifeExpectancyInputs
              \ {Undefined, Num(80 * U), Num(150 * U - U \div 2), Num(150 * U)} }
  \cup { Body(b, l, th) :
      b \in {DateText(1990, 5, 15), DateText(2024, 5, 16)},
      l \in {Undefined, Num(80 * U), Num(150 * U - U \div 2), Num(150 * U)},
      th \in {Undefined, Str(S_light)} }
  \cup { Body(DateText(2023, 5, 15), l, th) :
      l \in {Undefined, Num(1 * U)}, th \in ThemeInputs }

NoRequest == Body(Undefined, Undefined, Undefined)

Response(status, errors, contentType) ==
  [status |-> status, error |-> errors, contentType |-> contentType]

NoResponse == Response(0, <<>>, "")

\* error.message of an exception thrown by the canvas library
ErrorMessage == "error.message"

----------------------------------------------------------------------------
(* The state machine *)

\* the year-mode calculator has not been asked
NoYear ==
  [phase |-> "none", referenceDate |-> InvalidDate,
   elapsedUnits |-> 0, totalUnits |-> 0, columns |-> 0, rows |-> 0]

Init ==
  /\ now = StartTime
  /\ zoneBehindUTC \in BOOLEAN
  /\ pc = "idle"
  /\ route = "none"
  /\ req = NoRequest
  /\ res = NoResponse
  /\ render = NotCalled
  /\ yearMode = NoYear

\* time passes between two requests
Tick ==
  /\ pc = "idle"
  /\ TicksSince(now) < MaxTicks
  /\ now' = AddHalfDays(now, 1)
  /\ UNCHANGED <<zoneBehindUTC, pc, route, req, res, render, yearMode>>

\* express.json() has parsed the body of a POST /api/generate-calendar
Receive(body) ==
  /\ pc = "idle"
  /\ pc' = "received"
  /\ route' = "POST /api/generate-calendar"
  /\ req' = body
  /\ UNCHANGED <<now, zoneBehindUTC, res, render, yearMode>>

\* app.post('/api/generate-calendar'): validateInput reads the clock at
\* `now`; the handler reads it again `elapsed` half days later; canvasThrows
\* tells whether createCanvas or toBuffer throws, which the catch at line 469
\* answers
PostGenerateCalendar(elapsed, legacyFuture, canvasThrows) ==
  LET body == req
      errors == validateInput(body, now, legacyFuture)
      lifeExpectancy == Default(body.lifeExpectancy, Num(80 * U))
      theme == Default(body.theme, Str(S_dark))
      today == AddHalfDays(now, elapsed)
      currentDate == ToISODate(today)
  IN /\ pc = "received"
     /\ TicksSince(now) + elapsed <= MaxTicks
     /\ pc' = "responded"
     /\ IF Len(errors) > 0
          THEN /\ res' = Response(400, errors, "application/json")
               /\ render' = NotCalled
               /\ now' = now
          ELSE IF canvasThrows
          THEN /\ res' = Response(500, <<"Failed to generate calendar image">>,
                                  "application/json")
               /\ render' = NotCalled
               /\ now' = today
          ELSE /\ render' = generateCalendarImage(body.birthDate.v, currentDate,
                               lifeExpectancy, theme, zoneBehindUTC)
               /\ res' = Response(200, <<>>, "image/png")
               /\ now' = today
     /\ UNCHANGED <<zoneBehindUTC, route, req, yearMode>>

\* app.get('/test-canvas') (lines 268-299): the test image, or the answer of
\* its catch block when the canvas throws an error with message ErrorMessage
GetTestCanvas(canvasThrows) ==
  /\ pc = "idle"
  /\ pc' = "responded"
  /\ route' = "GET /test-canvas"
  /\ res' = IF canvasThrows
              THEN Response(500, <<ErrorMessage>>, "application/json")
              ELSE Response(200, <<>>, "image/png")
  /\ UNCHANGED <<now, zoneBehindUTC, req, render, yearMode>>

\* app.get('/') (lines 302-433): the landing page
GetRoot ==
  /\ pc = "idle"
  /\ pc' = "responded"
  /\ route' = "GET /"
  /\ res' = Response(200, <<>>, "text/html")
  /\ UNCHANGED <<now, zoneBehindUTC, req, render, yearMode>>

\* the 404 handler (lines 476-478), for a request no route matches
NotFound ==
  /\ pc = "idle"
  /\ pc' = "responded"
  /\ route' = "unmatched"
  /\ res' = Response(404, <<"Not found">>, "application/json")
  /\ UNCHANGED <<now, zoneBehindUTC, req, render, yearMode>>

\* the error handler (lines 481-484), reached when express.json() fails on
\* the body of a POST and passes its error on
ErrorHandler ==
  /\ pc = "idle"
  /\ pc' = "responded"
  /\ route' = "POST /api/generate-calendar"
  /\ res' = Response(500, <<"Internal server error">>, "application/json")
  /\ UNCHANGED <<now, zoneBehindUTC, req, render, yearMode>>

\* the response has been sent; the request and its canvas are discarded
Finish ==
  /\ pc = "responded"
  /\ pc' = "idle"
  /\ route' = "none"
  /\ req' = NoRequest
  /\ res' = NoResponse
  /\ render' = NotCalled
  /\ UNCHANGED <<now, zoneBehindUTC, yearMode>>

Next ==
  \/ Tick
  \/ \E body \in Bodies : Receive(body)
  \/ \E elapsed \in 0..1, canvasThrows \in BOOLEAN :
       \E legacyFuture \in
            (IF Truthy(req.birthDate) /\ ~IsoFormat(req.birthDate.v)
               THEN BOOLEAN ELSE {FALSE}) :
         PostGenerateCalendar(elapsed, legacyFuture, canvasThrows)
  \/ \E canvasThrows \in BOOLEAN : GetTestCanvas(canvasThrows)
  \/ GetRoot
  \/ NotFound
  \/ ErrorHandler
  \/ Finish

Spec == Init /\ [][Next]_vars

----------------------------------------------------------------------------
(* Year mode: the calculator of the year-calendar variant *)

YearModeTotalWeeks == 52
YearModeColumns == 13
YearModeRows == 4

\* the first year whose days are tried
YearModeFirstYear == 2023

Clamp(x, lo, hi) == IF x < lo THEN lo ELSE IF x > hi THEN hi ELSE x

\* midnight of 1 January of the year of a Date
StartOfYear(date) ==
  [valid |-> TRUE, day |-> DaysFromCivil(CivilFromDays(date.day)[1], 1, 1), ms |-> 0]

\* the week count left as computed, without the clamp
YearModeCalculator_unclamped(referenceDate) ==
  LET midnight == [referenceDate EXCEPT !.ms = 0]
  IN [phase |-> "done", referenceDate |-> referenceDate,
      elapsedUnits |-> FloorDiffDiv(midnight, StartOfYear(midnight), msPerWeek),
      totalUnits |-> YearModeTotalWeeks,
      columns |-> YearModeColumns, rows |-> YearModeRows]

\* currentWeek = floor((referenceDate - startOfYear) / 7 days) clamped to
\* [0, 51], on the midnight of the reference date; 52 weeks on 13 x 4
YearModeCalculator(referenceDate) ==
  LET midnight == [referenceDate EXCEPT !.ms = 0]
      currentWeek == FloorDiffDiv(midnight, StartOfYear(midnight), msPerWeek)
  IN [phase |-> "done", referenceDate |-> referenceDate,
      elapsedUnits |-> Clamp(currentWeek, 0, YearModeTotalWeeks - 1),
      totalUnits |-> YearModeTotalWeeks,
      columns |-> YearModeColumns, rows |-> YearModeRows]

\* every day of MaxYearModeYears years, at midnight and at noon
YearModeDates ==
  { [valid |-> TRUE, day |-> d, ms |-> m] :
      d \in DaysFromCivil(YearModeFirstYear, 1, 1)
              ..(DaysFromCivil(YearModeFirstYear + MaxYearModeYears, 1, 1) - 1),
      m \in {0, HalfDay} }

InitYear ==
  /\ now = StartTime
  /\ zoneBehindUTC = FALSE
  /\ pc = "idle"
  /\ route = "none"
  /\ req = NoRequest
  /\ res = NoResponse
  /\ render = NotCalled
  /\ yearMode \in { [NoYear EXCEPT !.phase = "input", !.referenceDate = d] :
                      d \in YearModeDates }

\* the calculator is applied to the reference date
YearCalendar ==
  /\ yearMode.phase = "input"
  /\ yearMode' = YearModeCalculator(yearMode.referenceDate)
  /\ UNCHANGED <<now, zoneBehindUTC, pc, route, req, res, render>>

NextYear == YearCalendar

SpecYear == InitYear /\ [][NextYear]_vars

----------------------------------------------------------------------------
(* Vocabulary of the properties *)

IsLeapYear(y) == (y % 4 = 0 /\ y % 100 # 0) \/ y % 400 = 0

\* leap years before year y, counted from year 1
LeapYearsBefore(y) == (y - 1) \div 4 - (y - 1) \div 100 + (y - 1) \div 400

MonthLengths(y) ==
  << 31, IF IsLeapYear(y) THEN 29 ELSE 28, 31, 30, 31, 30, 31, 31, 30, 31, 30, 31 >>

RECURSIVE DaysBeforeMonth(_, _)
DaysBeforeMonth(y, m) ==
  IF m = 1 THEN 0 ELSE DaysBeforeMonth(y, m - 1) + MonthLengths(y)[m - 1]

\* calendar day count since 1970-01-01, by the month table
DayNumber(y, m, d) ==
  365 * (y - 1970) + LeapYearsBefore(y) - LeapYearsBefore(1970)
    + DaysBeforeMonth(y, m) + d - 1

TextYear(s) ==
  DigitVal(s[1]) * 1000 + DigitVal(s[2]) * 100 + DigitVal(s[3]) * 10 + DigitVal(s[4])
TextMonth(s) == DigitVal(s[6]) * 10 + DigitVal(s[7])
TextDay(s) == DigitVal(s[9]) * 10 + DigitVal(s[10])

\* the day count of a YYYY-MM-DD text
TextDayNumber(s) == DayNumber(TextYear(s), TextMonth(s), TextDay(s))

\* a YYYY-MM-DD text naming a month 1..12 and a day 1..31
WellFormedDate(x) ==
  /\ x.t = "string"
  /\ IsoFormat(x.v)
  /\ TextMonth(x.v) \in 1..12
  /\ TextDay(x.v) \in 1..31

Responded == pc = "responded"
Rejected == Responded /\ res.status = 400 /\ ~render.called
Rendered == Responded /\ render.called

\* an integer between 1 and 150
IntegerInRange(x) ==
  x.t = "number" /\ x.v % U = 0 /\ x.v >= 1 * U /\ x.v <= 150 * U

\* the grid dots of the render, in drawing order
GridOf(r) == SelectSeq(r.ops, LAMBDA o : o.part = "grid")

\* the life expectancy the request asks for, 80 when it gives none
RequestedLife == ToNumber(Default(req.lifeExpectancy, Num(80 * U)))

----------------------------------------------------------------------------
(* Properties *)

\* C1: in every render the elapsed-week count lies between 0 and
\* totalUnits - 1, where totalUnits = lifeExpectancy * 52 (a larger count is
\* clamped to totalUnits - 1)
C1_ElapsedWithinTotal ==
  Rendered =>
    /\ render.totalWeeks = RequestedLife * 52
    /\ 0 <= render.weeksLived
    /\ render.weeksLived * U <= render.totalWeeks - 1 * U

\* C2: a request whose lifeExpectancy is supplied and is not an integer in
\* [1,150] is rejected with status 400 without a call of
\* generateCalendarImage, so every lifeExpectancy that reaches
\* generateCalendarImage is an integer between 1 and 150
C2_LifeExpectancyRejected ==
  Responded =>
    /\ (req.lifeExpectancy.t # "undefined" /\ ~IntegerInRange(req.lifeExpectancy))
         => Rejected
    /\ render.called => IntegerInRange(render.lifeExpectancy)

\* C3: for every grid index i below totalUnits the dot is coloured
\* theme.lived iff i < elapsedUnits, theme.current iff i = elapsedUnits and
\* theme.future otherwise; at most one dot is coloured current, and exactly
\* one when elapsedUnits < totalUnits
C3_CellClassification ==
  Rendered =>
    LET g == GridOf(render)
        th == render.theme
        cur == { i \in 1..Len(g) : g[i].style = Field(th, "current") }
    IN /\ \A i \in 1..Len(g) :
            (i - 1) * U < render.totalWeeks =>
              /\ g[i].style = Field(th, "lived") <=> i - 1 < render.weeksLived
              /\ g[i].style = Field(th, "current") <=> i - 1 = render.weeksLived
              /\ g[i].style = Field(th, "future") <=> i - 1 > render.weeksLived
       /\ Cardinality(cur) <= 1
       /\ render.weeksLived * U < render.totalWeeks => Cardinality(cur) = 1

\* C4: in every render elapsedUnits is the number of whole days from
\* birthDate to the reference date divided by 7 and rounded down, and
\* totalUnits is lifeExpectancy * 52
C4_WeeksLived ==
  Rendered =>
    /\ TextDayNumber(render.currentDate) = now.day
    /\ render.birthDate = req.birthDate.v
    /\ TextDayNumber(render.birthDate) <= now.day
    /\ render.weeksLived = (now.day - TextDayNumber(render.birthDate)) \div 7
    /\ render.totalWeeks = RequestedLife * 52

C4_Witness ==
  /\ Rendered
  /\ render.weeksLived > 52
  /\ (now.day - TextDayNumber(render.birthDate)) % 7 # 0
  /\ render.totalWeeks > 52 * U

ColourFields == {"background", "lived", "future", "current", "text", "textSecondary"}

\* C5: the theme name "light" resolves to the light palette and every other
\* name to the dark palette, so the theme of a render is one of the two
\* palettes, with its six colours defined
C5_ThemeResolution ==
  Rendered =>
    /\ render.themeName = Str(S_light) => render.theme = Palette(S_light)
    /\ render.themeName # Str(S_light) => render.theme = Palette(S_dark)
    /\ \A f \in ColourFields : Field(render.theme, f) # UndefinedField

\* C6: a request whose theme is a non-empty string other than "dark" and
\* "light" is rejected with the theme error and never rendered
C6_ThemeRejected ==
  (/\ Responded
   /\ req.theme.t = "string"
   /\ req.theme.v # <<>>
   /\ req.theme.v \notin {S_dark, S_light})
    => /\ Rejected
       /\ \E k \in 1..Len(res.error) :
            res.error[k] = "theme must be either \"dark\" or \"light\""

\* C7: a request whose birthDate is a well-formed date at least one day
\* after the reference date is rejected and not rendered; every render has
\* birthDate <= reference date and a non-negative elapsed-week count
C7_FutureBirthRejected ==
  Responded =>
    /\ (WellFormedDate(req.birthDate) /\ TextDayNumber(req.birthDate.v) >= now.day + 1)
         => Rejected
            /\ \E k \in 1..Len(res.error) :
                 res.error[k] = "birthDate cannot be in the future"
    /\ render.called =>
         /\ TextDayNumber(render.birthDate) <= TextDayNumber(render.currentDate)
         /\ render.weeksLived >= 0

\* a birth date one day ahead of the reference date, rejected for that alone
C7_Witness ==
  /\ Rejected
  /\ WellFormedDate(req.birthDate)
  /\ TextDayNumber(req.birthDate.v) = now.day + 1
  /\ res.error = <<"birthDate cannot be in the future">>

\* the render's reference date is the N-th anniversary of its birth date
Anniversary(r, n) ==
  /\ TextYear(r.currentDate) = TextYear(r.birthDate) + n
  /\ TextMonth(r.currentDate) = TextMonth(r.birthDate)
  /\ TextDay(r.currentDate) = TextDay(r.birthDate)

\* 29 Februaries after the birth date and up to the reference date
LeapDaysBetween(r) ==
  Cardinality({ y \in TextYear(r.birthDate)..TextYear(r.currentDate) :
                  /\ IsLeapYear(y)
                  /\ DayNumber(y, 2, 29) > TextDayNumber(r.birthDate)
                  /\ DayNumber(y, 2, 29) <= TextDayNumber(r.currentDate) })

Scenario1(r) ==
  /\ r.birthDate = DateText(1990, 5, 15).v
  /\ r.currentDate = DateText(2024, 5, 15).v
  /\ r.lifeExpectancy = Num(80 * U)

\* C8 as stated: on the N-th anniversary of birthDate the elapsed-week count
\* is within 1 of N * 52; in scenario 1 it lies in [34*52 - 1, 34*52 + 1]
\* and totalUnits is 4160
C8_AnniversaryWithinOne ==
  Rendered =>
    /\ \A n \in 0..150 :
         Anniversary(render, n) =>
           /\ render.weeksLived >= n * 52 - 1
           /\ render.weeksLived <= n * 52 + 1
    /\ Scenario1(render) =>
         /\ render.weeksLived \in (34 * 52 - 1)..(34 * 52 + 1)
         /\ render.totalWeeks = 4160 * U

\* C8 amended: on the N-th anniversary the elapsed-week count is
\* N * 52 + floor((N + k) / 7), k being the number of 29 Februaries passed;
\* in scenario 1 it is 34*52 + 6 = 1774 and totalUnits is 4160
C8_AnniversaryWeeks ==
  Rendered =>
    /\ \A n \in 0..150 :
         Anniversary(render, n) =>
           render.weeksLived = n * 52 + (n + LeapDaysBetween(render)) \div 7
    /\ Scenario1(render) =>
         /\ render.weeksLived = 34 * 52 + 6
         /\ render.totalWeeks = 4160 * U

C8_Witness ==
  /\ Rendered
  /\ Scenario1(render)
  /\ Anniversary(render, 34)
  /\ LeapDaysBetween(render) = 9

\* C9: startX + gridWidth / 2 is the horizontal centre of the available
\* rectangle and startY + gridHeight / 2 its vertical centre, within 1px
C9_GridCentred ==
  Rendered =>
    LET g == GridOf(render)
        left == (marginLeft + yearLabelWidth) * U
        top == (safeAreaTop + headerHeight) * U
        dx == (2 * render.startX + weeksPerYear * cellSize * U)
                - (2 * left + availableWidth * U)
        dy == (2 * render.startY + RequestedLife * cellSize)
                - (2 * top + availableHeight * U)
    IN /\ dx >= -2 * U /\ dx <= 2 * U
       /\ dy >= -2 * U /\ dy <= 2 * U
       /\ Len(g) > 0 =>
            /\ g[1].x - g[1].r = render.startX
            /\ g[1].y - g[1].r = render.startY

C9_Witness ==
  /\ Rendered
  /\ Len(GridOf(render)) > 0
  /\ render.startY > (safeAreaTop + headerHeight) * U
  /\ render.startX > (marginLeft + yearLabelWidth) * U

\* C10: the render draws exactly one grid dot for each index i in
\* [0, lifeExpectancy * 52), the dot of index i centred at
\* (startX + (i mod 52) * cellSize + dotDiameter / 2,
\*  startY + floor(i / 52) * cellSize + dotDiameter / 2) with radius
\* dotDiameter / 2, where cellSize = 11 and dotDiameter = 8
C10_DotPlacement ==
  Rendered =>
    LET g == GridOf(render)
    IN /\ Len(g) * U = RequestedLife * 52
       /\ \A i \in 0..(Len(g) - 1) :
            /\ g[i + 1].op = "arc"
            /\ g[i + 1].x = render.startX + (i % 52) * 11 * U + 4 * U
            /\ g[i + 1].y = render.startY + (i \div 52) * 11 * U + 4 * U
            /\ g[i + 1].r = 4 * U

\* the civil date <<y, m, d>> of a day count, found in the month table
CivilOfDayNumber(n) ==
  LET y == CHOOSE yy \in 1970..2100 :
             DayNumber(yy, 1, 1) <= n /\ n < DayNumber(yy + 1, 1, 1)
      m == CHOOSE mm \in 1..12 :
             /\ DayNumber(y, mm, 1) <= n
             /\ n < DayNumber(y, mm, 1) + MonthLengths(y)[mm]
  IN <<y, m, n - DayNumber(y, m, 1) + 1>>

\* C11: in year mode totalUnits is 52, on 13 columns and 4 rows, and
\* elapsedUnits is the number of days since 1 January divided by 7, rounded
\* down and clamped into [0, 51]; 1 January gives 0 and 31 December gives 51
C11_YearMode ==
  yearMode.phase = "done" =>
    LET c == CivilOfDayNumber(yearMode.referenceDate.day)
        days == yearMode.referenceDate.day - DayNumber(c[1], 1, 1)
    IN /\ yearMode.totalUnits = 52
       /\ yearMode.columns = 13 /\ yearMode.rows = 4
       /\ yearMode.elapsedUnits \in 0..51
       /\ yearMode.elapsedUnits = (IF days \div 7 > 51 THEN 51 ELSE days \div 7)
       /\ (c[2] = 1 /\ c[3] = 1) => yearMode.elapsedUnits = 0
       /\ (c[2] = 12 /\ c[3] = 31) => yearMode.elapsedUnits = 51

\* 31 December 2024, where the week count 52 is clamped to 51
C11_Witness ==
  /\ yearMode.phase = "done"
  /\ yearMode.referenceDate.day = DayNumber(2024, 12, 31)
  /\ (yearMode.referenceDate.day - DayNumber(2024, 1, 1)) \div 7 = 52
  /\ yearMode.elapsedUnits = 51

\* the reasons validateInput can give
ValidationMessages ==
  { "birthDate is required (format: YYYY-MM-DD)",
    "birthDate must be in YYYY-MM-DD format",
    "birthDate is not a valid date",
    "lifeExpectancy must be a number between 1 and 150",
    "theme must be either \"dark\" or \"light\"",
    "birthDate cannot be in the future" }

GenericMessages ==
  { "Failed to generate calendar image", "Internal server error", "Not found" }

\* C12: every error response is a 400 that carries validation reasons or a
\* response with one of the fixed generic messages, and no response carries
\* the message text of an internal exception
C12_NoInternalDetails ==
  Responded =>
    /\ res.status >= 400 =>
         \/ /\ res.status = 400
            /\ Len(res.error) > 0
            /\ \A k \in 1..Len(res.error) : res.error[k] \in ValidationMessages
         \/ /\ Len(res.error) = 1
            /\ res.error[1] \in GenericMessages
    /\ \A k \in 1..Len(res.error) : res.error[k] # ErrorMessage

\* positions in the canvas log of the render
OpsWhere(Test(_)) == { k \in 1..Len(render.ops) : Test(render.ops[k]) }

IsGridDot(o) == o.part = "grid"
IsLegend(o) == o.part = "legend"
IsEncode(o) == o.op = "toBuffer"
IsBackground(o) == o.part = "background"

\* the title, the age annotation and the weeks-lived counter
IsHeaderText(o) ==
  o.op = "fillText" /\ o.text \in {"LIFE CALENDAR", "Age: N years", "N weeks lived"}

IsBirthYear(o) == o.op = "fillText" /\ o.text = "Born: N"

\* every position of a comes before every position of b
AllBefore(a, b) == \A i \in a, j \in b : i < j

\* the background fill is the first call and the PNG encoding the last one
BackgroundFirstEncodeLast ==
  /\ OpsWhere(IsBackground) = {1}
  /\ OpsWhere(IsEncode) = {Len(render.ops)}

\* C13 as stated: the background fill comes before any other draw, all
\* header text (title, age, weeks-lived counter, birth-year annotation)
\* before the first grid dot, all grid dots before the first legend entry,
\* and the PNG encoding last
C13_HeaderBeforeGrid ==
  Rendered =>
    /\ BackgroundFirstEncodeLast
    /\ AllBefore(OpsWhere(IsHeaderText), OpsWhere(IsGridDot))
    /\ AllBefore(OpsWhere(IsBirthYear), OpsWhere(IsGridDot))
    /\ AllBefore(OpsWhere(IsGridDot), OpsWhere(IsLegend))

\* C13 amended: the background fill comes first; the title, the age and the
\* weeks-lived counter come before the first grid dot; the birth-year
\* annotation comes after the last grid dot and before the first legend
\* entry; all grid dots come before the first legend entry; the PNG
\* encoding comes last
C13_RenderOrder ==
  Rendered =>
    /\ BackgroundFirstEncodeLast
    /\ Cardinality(OpsWhere(IsHeaderText)) = 3
    /\ Cardinality(OpsWhere(IsBirthYear)) = 1
    /\ Cardinality(OpsWhere(IsLegend)) = 6
    /\ AllBefore(OpsWhere(IsHeaderText), OpsWhere(IsGridDot))
    /\ AllBefore(OpsWhere(IsHeaderText), OpsWhere(IsBirthYear))
    /\ AllBefore(OpsWhere(IsGridDot), OpsWhere(IsBirthYear))
    /\ AllBefore(OpsWhere(IsBirthYear), OpsWhere(IsLegend))
    /\ AllBefore(OpsWhere(IsGridDot), OpsWhere(IsLegend))

C13_Witness ==
  /\ Rendered
  /\ Cardinality(OpsWhere(IsGridDot)) >= 52
  /\ \E i \in OpsWhere(IsGridDot), j \in OpsWhere(IsBirthYear) : i < j

\* C14: in every render gridWidth <= availableWidth and gridHeight <=
\* availableHeight, and every grid dot lies inside the available rectangle
\* (so inside the canvas), below the header texts and above the legend at
\* y = CANVAS_HEIGHT - 60
C14_GridFits ==
  Rendered =>
    LET left == (marginLeft + yearLabelWidth) * U
        top == (safeAreaTop + headerHeight) * U
        legendTop == (CANVAS_HEIGHT - 60) * U - 4 * U
    IN /\ weeksPerYear * cellSize <= availableWidth
       /\ RequestedLife * cellSize <= availableHeight * U
       /\ render.gridHeight <= availableHeight * U
       /\ \A k \in OpsWhere(IsGridDot) :
            LET o == render.ops[k]
            IN /\ o.x - o.r >= left
               /\ o.x + o.r <= left + availableWidth * U
               /\ o.y - o.r >= top
               /\ o.y + o.r <= top + availableHeight * U
               /\ o.x - o.r >= 0 /\ o.x + o.r <= CANVAS_WIDTH * U
               /\ o.y - o.r >= 0 /\ o.y + o.r <= CANVAS_HEIGHT * U
               /\ o.y + o.r < legendTop
       /\ \A h \in OpsWhere(IsHeaderText) \cup OpsWhere(IsBirthYear) :
            render.ops[h].y < top

\* the tallest grid validation lets through: 150 rows
C14_Witness ==
  /\ Rendered
  /\ RequestedLife = 150 * U
  /\ Cardinality(OpsWhere(IsGridDot)) = 150 * 52

\* whole calendar years from the birth date to the reference date of the render
CalendarAge(r) ==
  LET b == CivilOfDayNumber(TextDayNumber(r.birthDate))
      c == CivilOfDayNumber(TextDayNumber(r.currentDate))
      before == c[2] < b[2] \/ (c[2] = b[2] /\ c[3] < b[3])
  IN c[1] - b[1] - (IF before THEN 1 ELSE 0)

IsAgeLabel(o) == o.op = "fillText" /\ o.text = "Age: N years"

\* grid row of a dot, from its y coordinate
RowOf(o) == (o.y - o.r - render.startY) \div (cellSize * U)

\* C15: the number shown in the 'Age: N years' label is the number of whole
\* calendar years from birthDate to the reference date, and the dot of the
\* current week lies in the grid row of that index
C15_AgeLabel ==
  Rendered =>
    LET g == GridOf(render)
    IN /\ \A k \in OpsWhere(IsAgeLabel) : render.ops[k].n = CalendarAge(render)
       /\ render.weeksLived < Len(g) =>
            RowOf(g[render.weeksLived + 1]) = CalendarAge(render)

====
